---------------------------- MODULE Spec2Model ----------------------------
(***************************************************************************)
(* durable-wallets: one wallet Durable Object (src/src/wallet.ts, the      *)
(* class of lines 244-530) together with the ledger it talks to, and the   *)
(* wallet pool Durable Object (src/unnamed/part_000).                      *)
(*                                                                         *)
(* A Durable Object runs one event at a time but interleaves events at     *)
(* every await of an outgoing request (the Chain Client calls); awaits of  *)
(* storage operations keep the input gate closed, so the code between two  *)
(* Chain Client calls is one atomic step.  blockConcurrencyWhile closes    *)
(* the input gate over an outgoing request as well.                        *)
(***************************************************************************)
EXTENDS Integers, Sequences, FiniteSets, TLC

(* ----------------------------- bounds ---------------------------------- *)
MaxSubmits == 3          \* submit calls made over a run
InitialCount == 7        \* the ledger's confirmed count of the wallet at the start
MAX_SUBMITTED == 2       \* env.MAX_SUBMITTED of the deployment (lines 415-417)
MaxAlarmRetries == 1     \* automatic re-runs of a throwing alarm handler
MaxPicks == 3            \* getNextWallet calls remembered
MIN_BALANCE_WEI == 2     \* env.MIN_BALANCE_WEI of the deployment (part_000 lines 81-83)

(* ------------------------- program constants --------------------------- *)
ALARM_INTERVAL_MS == 2000
SUBMIT_ALARM_DELAY_MS == 100
BALANCE_CHECK_INTERVAL_MS == 30000

undefined == "undefined"
NoAlarm == 0            \* getAlarm() returns null
PLATFORM_RETRY == 1     \* the slot holds the runtime's re-run of an interrupted alarm()

Calls == 1..MaxSubmits
MaxNonce == InitialCount + MaxSubmits
Nonces == 0..MaxNonce

(* ------------------------- request bodies ------------------------------ *)
\* SubmitTxRequest: the bodies a caller sends.
SubmitTxRequest ==
  { [to |-> "0xdest", value |-> undefined, data |-> "0xraw",
     abi |-> "mint(address,uint256)", args |-> <<"0xto", "1">>, gasLimit |-> "21000"],
    [to |-> "0xdest", value |-> "abc", data |-> undefined, abi |-> undefined,
     args |-> <<>>, gasLimit |-> undefined] }

\* index.ts lines 76-83 cast the JSON body to SubmitTxRequest without looking at it:
\* the bodies a caller can send include those with no `to`.
SubmitTxRequestUnchecked ==
  SubmitTxRequest \cup
  { [to |-> undefined, value |-> undefined, data |-> "0xraw", abi |-> undefined,
     args |-> <<>>, gasLimit |-> undefined] }

\* BigInt(s) of a string: defined on decimal strings, a SyntaxError otherwise.
BigIntOk(s) == s \in {"0", "1", "21000"}
BigInt(s) == CASE s = "0" -> 0 [] s = "1" -> 1 [] s = "21000" -> 21000 [] OTHER -> -1

\* parseAbiItem(`function ${abi}`): throws on a malformed signature.
parseAbiItemOk(abi) == abi \in {"mint(address,uint256)"}
\* encodeFunctionData: the selector of the signature followed by the encoded arguments.
encodeFunctionData(abi, args) == <<"selector", abi>> \o args

\* Lines 313-329: does building the params throw?
ParamsThrow(body) ==
  \/ body.abi # undefined /\ ~parseAbiItemOk(body.abi)
  \/ body.value # undefined /\ ~BigIntOk(body.value)
  \/ body.gasLimit # undefined /\ ~BigIntOk(body.gasLimit)

\* The calldata if raw data took precedence over the signature.
Calldata_rawFirst(body) ==
  IF body.data # undefined THEN <<body.data>>
  ELSE IF body.abi # undefined THEN encodeFunctionData(body.abi, body.args) ELSE <<>>
\* Lines 313-322: the calldata of a request.
Calldata(body) ==
  IF body.abi # undefined THEN encodeFunctionData(body.abi, body.args)
  ELSE IF body.data # undefined THEN <<body.data>> ELSE <<>>

NoHash == [kind |-> "none", nonce |-> -1]
NoError == <<>>
NoTx == [present |-> FALSE, nonce |-> -1, to |-> undefined, value |-> -1, data |-> <<>>,
         gas |-> -1, hash |-> NoHash, error |-> NoError, createdAt |-> 0]

\* Lines 324-335: the StoredTx of a request (createdAt: Date.now(), here the rank of
\* the submit call among the calls made).
StoredTx(nonce, body, createdAt) ==
  [present |-> TRUE, nonce |-> nonce, to |-> body.to,
   value |-> IF body.value # undefined THEN BigInt(body.value) ELSE -1,
   data |-> Calldata(body),
   gas |-> IF body.gasLimit # undefined THEN BigInt(body.gasLimit) ELSE -1,
   hash |-> NoHash, error |-> NoError, createdAt |-> createdAt]

(* --------------------------- error messages ---------------------------- *)
\* Messages the Chain Client throws on sendTransaction.
ErrMsgs == {"request timeout", "already known", "insufficient funds"}
\* Lines 498-526: the messages of ErrMsgs that match one of the patterns.
retriablePatterns == {"request timeout", "already known"}
isRetriableError(errMsg) == errMsg \in retriablePatterns

(* ------------------------------ state ---------------------------------- *)
VARIABLES
  state,          \* storage[STATE_KEY]: the WalletState
  txs,            \* storage[TX_PREFIX + nonce]
  address,        \* storage[ADDRESS_KEY] is set
  alarm,          \* the alarm slot: NoAlarm or the delay it was armed with
  alarmRetries,   \* re-runs of the alarm handler since it last completed
  calls,          \* the submit calls: position, body, result
  pq,             \* the running processNextPendingTx: position and locals
  chainCount,     \* the ledger's confirmed transaction count of the wallet
  accepted,       \* nonces whose submission the Chain Client accepted (returned a hash)
  resubmitted,    \* nonces handed to sendTransaction again after being accepted
  bootQueries,    \* getTransactionCount calls made by getAndIncrementNonce
  run             \* the latest Chain Client submission of the current / last
                  \* processNextPendingTx invocation, and the reply it got

\* The wallet pool (src/unnamed/part_000).
VARIABLES
  nextIndex,              \* this.nextIndex
  cachedDisabledWallets,  \* this.cachedDisabledWallets
  disabledWallets,        \* storage[DISABLED_KEY]
  poolAlarm,              \* the pool's alarm slot
  checks,                 \* the checkBalances runs: of alarm() and of refresh()
  picks                   \* what the getNextWallet calls returned or threw, since the
                          \* stored disabled list last changed

poolVars == <<nextIndex, cachedDisabledWallets, disabledWallets, poolAlarm, checks, picks>>

vars == <<state, txs, address, alarm, alarmRetries, calls, pq,
          chainCount, accepted, resubmitted, bootQueries, run, poolVars>>
walletVars == <<state, txs, address, alarm, alarmRetries, calls, pq,
                chainCount, accepted, resubmitted, bootQueries, run>>

NoState == [present |-> FALSE, pendingNonce |-> 0, submittedNonce |-> 0, confirmedNonce |-> 0]
WalletState(p, s, c) ==
  [present |-> TRUE, pendingNonce |-> p, submittedNonce |-> s, confirmedNonce |-> c]

NoBody == [to |-> undefined, value |-> undefined, data |-> undefined, abi |-> undefined,
           args |-> <<>>, gasLimit |-> undefined]
\* body: the request, kept while the call awaits the Chain Client.
IdleCall == [pc |-> "idle", body |-> NoBody, nonce |-> -1, err |-> "none"]
IdlePq == [pc |-> "idle", st |-> NoState, nonce |-> -1, last |-> -1, tx |-> NoTx,
           errMsg |-> ""]
\* kind: "tx" (the record's transaction) or "skip" (the self-transfer); reply: "pending"
\* while awaited, "ok", the message thrown, or "0x" (skipNonce's failure value).
NoRun == [kind |-> "none", nonce |-> -1, reply |-> "none"]

\* getAddresses(), lines 28-36: the addresses of the configured keys, in their order.
getAddresses == <<"0xa", "0xb", "0xc">>
\* Line 26: the value of cachedDisabledWallets that stands for "not loaded yet".
NotLoaded == <<"0x">>
\* storage.get(DISABLED_KEY) on a pool that never stored a list.
NotStored == <<undefined>>
\* What getBalance returns: a balance below the minimum or at it; or it throws.
GetBalanceThrows == -1
Balances == {MIN_BALANCE_WEI - 1, MIN_BALANCE_WEI}
\* A checkBalances run: i is the index of the address whose balance is awaited,
\* disabled the local list, seen what getBalance returned so far; a run of refresh()
\* keeps them when it has returned.
Checkers == {"alarm", "refresh"}
IdleCheck == [pc |-> "idle", i |-> 0, disabled |-> <<>>, seen |-> <<>>]
NoWalletsAvailable == "No wallets available"

Init ==
  /\ nextIndex = -1
  /\ cachedDisabledWallets = NotLoaded
  /\ disabledWallets = NotStored
  /\ poolAlarm = NoAlarm
  /\ checks = [c \in Checkers |-> IdleCheck]
  /\ picks = <<>>
  /\ state = NoState
  /\ txs = [n \in Nonces |-> NoTx]
  /\ address = FALSE
  /\ alarm = NoAlarm
  /\ alarmRetries = 0
  /\ calls = [i \in Calls |-> IdleCall]
  /\ pq = IdlePq
  /\ chainCount = InitialCount
  /\ accepted = {}
  /\ resubmitted = {}
  /\ bootQueries = 0
  /\ run = NoRun

(* ----------------------------- platform -------------------------------- *)
\* ctx.blockConcurrencyWhile: no other event is delivered while its callback runs.
blockConcurrencyWhile_open == TRUE
blockConcurrencyWhile == \A i \in Calls : calls[i].pc # "bootstrap"

\* Lines 490-495.
ensureAlarmScheduled(currentAlarm, interval) ==
  IF currentAlarm = NoAlarm THEN interval ELSE currentAlarm

\* The values a getTransactionCount query can return: the ledger's count, or an
\* earlier one when the queried node lags.
CountReports == InitialCount..chainCount

(* ------------------------------ submit --------------------------------- *)
\* Lines 339-343: arm the alarm shortly, unless one is pending.
SubmitAlarm_rearm(current) == SUBMIT_ALARM_DELAY_MS
SubmitAlarm(current) ==
  IF current = NoAlarm THEN ensureAlarmScheduled(current, SUBMIT_ALARM_DELAY_MS)
  ELSE current

\* Lines 313-348, after the nonce is assigned: build the params (may throw), store
\* the record, arm the alarm if none is pending, return.
SubmitTail(i, body, nonce) ==
  IF ParamsThrow(body)
  THEN /\ calls' = [calls EXCEPT ![i] = [pc |-> "failed", body |-> NoBody, nonce |-> -1,
                                         err |-> "params"]]
       /\ UNCHANGED <<txs, alarm>>
  ELSE /\ txs' = [txs EXCEPT ![nonce] = StoredTx(nonce, body, i)]
       /\ alarm' = SubmitAlarm(alarm)
       /\ calls' = [calls EXCEPT ![i] = [pc |-> "returned", body |-> NoBody, nonce |-> nonce,
                                         err |-> "none"]]

\* Lines 367-373: the wallet has a state.
getAndIncrementNonce(st) ==
  WalletState(st.pendingNonce + 1, st.submittedNonce, st.confirmedNonce)

\* handleSubmitTransaction up to its first Chain Client call (lines 304-376).
handleSubmitTransaction(i, body) ==
  /\ calls[i].pc = "idle"
  /\ \A j \in Calls : j < i => calls[j].pc # "idle"
  /\ blockConcurrencyWhile
  /\ address' = TRUE
  /\ IF state.present
     THEN /\ state' = getAndIncrementNonce(state)
          /\ SubmitTail(i, body, state'.pendingNonce - 1)
          /\ UNCHANGED bootQueries
     ELSE /\ calls' = [calls EXCEPT ![i] = [pc |-> "bootstrap", body |-> body,
                                            nonce |-> -1, err |-> "none"]]
          /\ bootQueries' = bootQueries + 1
          /\ UNCHANGED <<state, txs, alarm>>
  /\ UNCHANGED <<alarmRetries, pq, chainCount, accepted, resubmitted, run>>
  /\ UNCHANGED poolVars

\* Lines 377-390 and the rest of handleSubmitTransaction: the count arrives.
SubmitBootstrapped(i, chainNonce) ==
  /\ calls[i].pc = "bootstrap"
  /\ state' = WalletState(chainNonce + 1, chainNonce - 1, chainNonce - 1)
  /\ SubmitTail(i, calls[i].body, state'.pendingNonce - 1)
  /\ UNCHANGED <<address, alarmRetries, pq, chainCount, accepted,
                 resubmitted, bootQueries, run>>
  /\ UNCHANGED poolVars

\* Line 377 throws: the exception leaves handleSubmitTransaction.
SubmitBootstrapFailed(i) ==
  /\ calls[i].pc = "bootstrap"
  /\ calls' = [calls EXCEPT ![i] = [IdleCall EXCEPT !.pc = "failed", !.err = "chain"]]
  /\ UNCHANGED <<state, txs, address, alarm, alarmRetries, pq, chainCount,
                 accepted, resubmitted, bootQueries, run>>
  /\ UNCHANGED poolVars

(* -------------------------- processQueue ------------------------------- *)
Min(S) == CHOOSE m \in S : \A k \in S : m <= k
Max2(a, b) == IF a >= b THEN a ELSE b
Min2(a, b) == IF a <= b THEN a ELSE b

\* The runtime runs alarm() at least once: an alarm() that did not complete is run again.
RearmAfterInterrupt(currentAlarm) ==
  IF currentAlarm = NoAlarm THEN PLATFORM_RETRY ELSE currentAlarm

\* The end of a run if it rescheduled whether or not work remains.
SaveAndReschedule_always(st, r) ==
  /\ state' = st
  /\ alarm' = ensureAlarmScheduled(alarm, ALARM_INTERVAL_MS)
  /\ alarmRetries' = 0
  /\ pq' = IdlePq
  /\ run' = r
  /\ UNCHANGED resubmitted

\* Lines 481-487: save the state, reschedule if there is still work to do.
SaveAndReschedule(st, r) ==
  /\ state' = st
  /\ alarm' = IF st.pendingNonce - 1 # st.confirmedNonce
              THEN ensureAlarmScheduled(alarm, ALARM_INTERVAL_MS) ELSE alarm
  /\ alarmRetries' = 0
  /\ pq' = IdlePq
  /\ run' = r
  /\ UNCHANGED resubmitted

\* Lines 439-454: the loop from iteration `from` up to its next sendTransaction call
\* (records that do not load are passed over, line 445), or to its end.
Loop(st, from, last, r, acc) ==
  LET loadable == { m \in Nonces : from <= m /\ m <= last /\ txs[m].present } IN
  IF loadable # {}
  THEN LET nonce == Min(loadable) IN
       /\ pq' = [pc |-> "send", st |-> st, nonce |-> nonce, last |-> last,
                 tx |-> txs[nonce], errMsg |-> ""]
       /\ run' = [kind |-> "tx", nonce |-> txs[nonce].nonce, reply |-> "pending"]
       /\ resubmitted' = IF txs[nonce].nonce \in acc
                         THEN resubmitted \cup {txs[nonce].nonce} ELSE resubmitted
       /\ UNCHANGED <<state, alarm, alarmRetries>>
  ELSE SaveAndReschedule(st, r)

\* The reply of the awaited Chain Client call.
Replied(r, reply) == [r EXCEPT !.reply = reply]

\* Lines 394-395: the stored state (alarm() only ever runs on a wallet that has one).
getOrInitState == state

\* alarm(), lines 297-302, and processNextPendingTx up to its count query (413-424).
AlarmFires ==
  /\ alarm # NoAlarm
  /\ pq.pc = "idle"
  /\ blockConcurrencyWhile
  /\ address /\ state.present
  /\ alarm' = NoAlarm
  /\ pq' = [IdlePq EXCEPT !.pc = "count", !.st = getOrInitState]
  /\ run' = NoRun
  /\ UNCHANGED <<state, txs, address, alarmRetries, calls, chainCount,
                 accepted, resubmitted, bootQueries>>
  /\ UNCHANGED poolVars

canSubmit_ignoringInFlight(st) == MAX_SUBMITTED
\* Lines 432-433.
canSubmit(st) == Max2(0, MAX_SUBMITTED - (st.submittedNonce - st.confirmedNonce))
lastNonceToSubmit_all(st) == st.pendingNonce - 1
\* Lines 434-437.
lastNonceToSubmit(st) == Min2(st.submittedNonce + canSubmit(st), st.pendingNonce - 1)
\* Lines 425-429.
Confirm(st, chainNonce) ==
  IF chainNonce - 1 > st.confirmedNonce
  THEN [st EXCEPT !.confirmedNonce = chainNonce - 1] ELSE st

\* Lines 425-445: the count arrives; the window is computed and the loop entered.
CountArrives(chainNonce) ==
  /\ pq.pc = "count"
  /\ blockConcurrencyWhile
  /\ LET st == Confirm(pq.st, chainNonce)
         last == lastNonceToSubmit(st) IN
     Loop(st, st.submittedNonce + 1, last, run, accepted)
  /\ UNCHANGED <<txs, address, calls, chainCount, accepted, bootQueries>>
  /\ UNCHANGED poolVars

\* Line 422 throws: alarm() fails and the runtime re-runs it a limited number of times.
CountFails ==
  /\ pq.pc = "count"
  /\ blockConcurrencyWhile
  /\ pq' = IdlePq
  /\ IF alarmRetries < MaxAlarmRetries
     THEN alarm' = RearmAfterInterrupt(alarm) /\ alarmRetries' = alarmRetries + 1
     ELSE alarm' = alarm /\ alarmRetries' = 0
  /\ UNCHANGED <<state, txs, address, calls, chainCount, accepted,
                 resubmitted, bootQueries, run>>
  /\ UNCHANGED poolVars

\* Lines 456-458: sendTransaction returned a hash.
SendAccepted ==
  /\ pq.pc = "send"
  /\ blockConcurrencyWhile
  /\ LET tx == [pq.tx EXCEPT !.hash = [kind |-> "tx", nonce |-> pq.tx.nonce]] IN
     /\ txs' = [txs EXCEPT ![pq.nonce] = tx]
     /\ accepted' = accepted \cup {pq.tx.nonce}
     /\ Loop([pq.st EXCEPT !.submittedNonce = pq.nonce], pq.nonce + 1, pq.last,
             Replied(run, "ok"), accepted')
  /\ UNCHANGED <<address, calls, chainCount, bootQueries>>
  /\ UNCHANGED poolVars

\* Lines 459-469: sendTransaction threw errMsg.
SendThrows(errMsg) ==
  /\ pq.pc = "send"
  /\ blockConcurrencyWhile
  /\ IF isRetriableError(errMsg)
     THEN SaveAndReschedule(pq.st, Replied(run, errMsg))
     ELSE \* skipNonce: a zero-value self-transfer with the same nonce (lines 351-360)
          /\ pq' = [pq EXCEPT !.pc = "skip", !.errMsg = errMsg]
          /\ run' = [kind |-> "skip", nonce |-> pq.nonce, reply |-> "pending"]
          /\ resubmitted' = IF pq.nonce \in accepted
                            THEN resubmitted \cup {pq.nonce} ELSE resubmitted
          /\ UNCHANGED <<state, alarm, alarmRetries>>
  /\ UNCHANGED <<txs, address, calls, chainCount, accepted, bootQueries>>
  /\ UNCHANGED poolVars

\* Lines 473-476: the self-transfer returned a hash.
SkipAccepted ==
  /\ pq.pc = "skip"
  /\ blockConcurrencyWhile
  /\ LET tx == [pq.tx EXCEPT !.hash = [kind |-> "skip", nonce |-> pq.nonce],
                             !.error = <<"skipped: ", pq.errMsg>>] IN
     /\ txs' = [txs EXCEPT ![pq.nonce] = tx]
     /\ accepted' = accepted \cup {pq.nonce}
     /\ Loop([pq.st EXCEPT !.submittedNonce = pq.nonce], pq.nonce + 1, pq.last,
             Replied(run, "ok"), accepted')
  /\ UNCHANGED <<address, calls, chainCount, bootQueries>>
  /\ UNCHANGED poolVars

\* The failed self-transfer if the loop went on to the next nonce.
SkipThrows_continuing ==
  /\ pq.pc = "skip"
  /\ blockConcurrencyWhile
  /\ Loop(pq.st, pq.nonce + 1, pq.last, Replied(run, "0x"), accepted)
  /\ UNCHANGED <<txs, address, calls, chainCount, accepted, bootQueries>>
  /\ UNCHANGED poolVars

\* Lines 361-364 and 470-472: the self-transfer threw; skipNonce returns "0x".
SkipThrows ==
  /\ pq.pc = "skip"
  /\ blockConcurrencyWhile
  /\ SaveAndReschedule(pq.st, Replied(run, "0x"))
  /\ UNCHANGED <<txs, address, calls, chainCount, accepted, bootQueries>>
  /\ UNCHANGED poolVars

\* The object is evicted or restarted while a handler awaits the Chain Client: the
\* handler and its locals are lost, storage is kept, an interrupted alarm() runs again.
Crash ==
  /\ pq.pc # "idle" \/ \E i \in Calls : calls[i].pc = "bootstrap"
  /\ pq' = IdlePq
  /\ alarm' = IF pq.pc # "idle" THEN RearmAfterInterrupt(alarm) ELSE alarm
  /\ calls' = [i \in Calls |-> IF calls[i].pc = "bootstrap"
                               THEN [IdleCall EXCEPT !.pc = "failed", !.err = "crash"]
                               ELSE calls[i]]
  /\ UNCHANGED <<state, txs, address, alarmRetries, chainCount, accepted,
                 resubmitted, bootQueries, run>>
  /\ UNCHANGED poolVars

(* ---------------------------- the ledger ------------------------------- *)
\* The ledger settles the next nonce once a transaction with it was accepted.
LedgerConfirm ==
  /\ chainCount \in accepted
  /\ chainCount' = chainCount + 1
  /\ UNCHANGED <<state, txs, address, alarm, alarmRetries, calls, pq,
                 accepted, resubmitted, bootQueries, run>>
  /\ UNCHANGED poolVars

(* ------------------------------ claims --------------------------------- *)
Returned == { i \in Calls : calls[i].pc = "returned" }
ReturnedNonces == { calls[i].nonce : i \in Returned }
NoCallAborted == \A i \in Calls : calls[i].pc # "failed"

\* C1: the nonces returned by N submit calls (none of which aborted) are pairwise
\* distinct and are exactly the N consecutive integers from the first nonce assigned,
\* also when submits arrive while processNextPendingTx awaits the Chain Client.
C1_NoncesConsecutive ==
  (NoCallAborted /\ Returned # {}) =>
     /\ \A i, j \in Returned : i # j => calls[i].nonce # calls[j].nonce
     /\ ReturnedNonces = InitialCount..(InitialCount + Cardinality(Returned) - 1)

\* C2: when the first two submit calls to a wallet without a stored state have both
\* returned, they returned c and c+1 for the ledger's confirmed count c, and the
\* bootstrap queried the confirmed count exactly once.
C2_FirstSubmits ==
  (calls[1].pc = "returned" /\ calls[2].pc = "returned") =>
     /\ calls[1].nonce = InitialCount
     /\ calls[2].nonce = InitialCount + 1
     /\ bootQueries = 1
C2_Witness ==
  /\ calls[1].pc = "returned" /\ calls[2].pc = "returned"
  /\ calls[1].nonce # calls[2].nonce
  /\ bootQueries = 1

\* C3: in every stored state, confirmedNonce <= submittedNonce <= pendingNonce - 1.
C3_WatermarkOrder ==
  state.present =>
     /\ state.confirmedNonce <= state.submittedNonce
     /\ state.submittedNonce <= state.pendingNonce - 1

\* C4: in every stored state a record exists for every nonce in
\* confirmedNonce+1 .. pendingNonce-1, also after a submit call that aborted.
C4_RecordForEveryNonce ==
  state.present =>
     \A n \in Nonces :
        (state.confirmedNonce + 1 <= n /\ n <= state.pendingNonce - 1) => txs[n].present

\* C5: the stored state always has submittedNonce - confirmedNonce <= maxInFlight.
C5_InFlightBounded ==
  state.present => state.submittedNonce - state.confirmedNonce <= MAX_SUBMITTED
\* a processNextPendingTx invocation has ended with the window full and work left over
C5_Witness ==
  /\ state.present /\ pq.pc = "idle" /\ run.reply = "ok"
  /\ state.submittedNonce - state.confirmedNonce = MAX_SUBMITTED
  /\ state.submittedNonce < state.pendingNonce - 1

\* The step in which the awaited sendTransaction of pq.nonce throws a retriable error.
RetriableFailureStep ==
  pq.pc = "send" /\ run.reply = "pending" /\ run'.reply \in retriablePatterns
\* The step in which the awaited self-transfer of pq.nonce returns a hash.
SkipSuccessStep ==
  pq.pc = "skip" /\ run.reply = "pending" /\ (run'.reply = "ok" \/ run'.kind = "tx")

\* C6: within one invocation the Chain Client submissions go up in nonce (a
\* self-transfer takes the nonce of the transaction it replaces), and at the first
\* retriable failure the loop stops: submittedNonce stays below that nonce and the
\* records of that nonce and of every higher one carry no hash and no error.
C6_HaltsAtRetriable ==
  [][ /\ (pq.pc \in {"send", "skip"} /\ pq'.pc = "send" /\ pq' # pq) =>
           pq'.tx.nonce > pq.nonce
      /\ (pq.pc = "send" /\ pq'.pc = "skip") => pq'.nonce = pq.nonce
      /\ RetriableFailureStep =>
           /\ pq'.pc = "idle"
           /\ state'.submittedNonce < pq.nonce
           /\ \A m \in Nonces : m >= pq.nonce =>
                 txs'[m].hash = NoHash /\ txs'[m].error = NoError ]_vars

\* C7: when the self-transfer for a nonce succeeds, the record of that nonce gets the
\* self-transfer's hash and an error starting with "skipped: ", submittedNonce becomes
\* that nonce, and the invocation goes on to submit the next nonce if the window holds it.
C7_SkipContinues ==
  [][ SkipSuccessStep =>
        /\ txs'[pq.nonce].hash = [kind |-> "skip", nonce |-> pq.nonce]
        /\ Len(txs'[pq.nonce].error) > 0 /\ Head(txs'[pq.nonce].error) = "skipped: "
        /\ IF pq'.pc = "idle" THEN state'.submittedNonce = pq.nonce
                              ELSE pq'.st.submittedNonce = pq.nonce
        /\ pq.nonce + 1 <= pq.last =>
              pq'.pc = "send" /\ pq'.nonce = pq.nonce + 1 /\ run'.nonce = pq.nonce + 1 ]_vars

\* C8: no nonce whose submission the Chain Client accepted is handed to it again,
\* also when an invocation was interrupted in its loop.
C8_NoResubmission == resubmitted = {}

\* C9: no submit call fails because of the Chain Client.
C9_SubmitNeverFailsOnChain == \A i \in Calls : calls[i].err # "chain"

\* C10: the stored pendingNonce, submittedNonce and confirmedNonce never decrease.
C10_WatermarksMonotone ==
  [][ state.present =>
        /\ state'.pendingNonce >= state.pendingNonce
        /\ state'.submittedNonce >= state.submittedNonce
        /\ state'.confirmedNonce >= state.confirmedNonce ]_vars

\* C12: whenever work remains (confirmedNonce < pendingNonce - 1) and neither a submit
\* nor processNextPendingTx is executing, an alarm is pending.
C12_WakeupWhileWork ==
  ( /\ state.present /\ state.confirmedNonce < state.pendingNonce - 1
    /\ pq.pc = "idle" /\ \A i \in Calls : calls[i].pc # "bootstrap" )
  => alarm # NoAlarm

\* The step in which submit call i returns.
SubmitReturns(i) == calls[i].pc # "returned" /\ calls'[i].pc = "returned"

\* C13: when a submit call returns an alarm is pending, and no step of a submit call
\* changes an alarm that was pending before it.
C13_SubmitKeepsAlarm ==
  [][ /\ \A i \in Calls : SubmitReturns(i) => alarm' # NoAlarm
      /\ (calls' # calls /\ alarm # NoAlarm) => alarm' = alarm ]_vars
\* A processNextPendingTx invocation went through its whole window, which held every
\* record there was, and armed the alarm; a submit that came after it left that alarm.
C13_Witness ==
  /\ pq.pc = "idle" /\ alarm = ALARM_INTERVAL_MS /\ run.reply = "ok"
  /\ NoCallAborted
  /\ state.submittedNonce - state.confirmedNonce < MAX_SUBMITTED
  /\ state.submittedNonce < state.pendingNonce - 1
  /\ txs[state.pendingNonce - 1].present

\* The records of the three nonces of the scenario exist.
ThreeQueued(st) ==
  /\ st.pendingNonce = InitialCount + 3
  /\ \A n \in InitialCount..(InitialCount + 2) : txs[n].present

\* What an invocation that starts from the state st hands the Chain Client.
C14_Window ==
  /\ (pq.pc \in {"send", "skip"} /\ ThreeQueued(pq.st)
        /\ pq.st.confirmedNonce = InitialCount - 1) =>
        /\ pq.last = InitialCount - 1 + MAX_SUBMITTED
        /\ pq.nonce \in InitialCount..pq.last
        /\ pq.nonce = pq.st.submittedNonce + 1
  /\ (pq.pc \in {"send", "skip"} /\ ThreeQueued(pq.st)
        /\ state.submittedNonce = InitialCount + 1
        /\ pq.st.confirmedNonce = InitialCount) =>
        pq.nonce = InitialCount + 2 /\ pq.last = InitialCount + 2

\* C14: on a fresh wallet whose ledger count is InitialCount (7) the first submit
\* returns 7 and stores the state (8, 6, 6), and every later submit returns pendingNonce
\* and adds one to it, so three submits return 7, 8, 9 and leave (10, 6, 6); with
\* MAX_SUBMITTED = 2 an invocation that starts from there hands the Chain Client nonce
\* 7, then (once 7 is accepted) nonce 8, and no other; once the count read is 8, the
\* invocation that starts from (10, 8, 7) hands it nonce 9 and no other.
C14_Backpressure ==
  /\ []C14_Window
  /\ [][ \A i \in Calls : SubmitReturns(i) =>
            IF state.present
            THEN /\ calls'[i].nonce = state.pendingNonce
                 /\ state' = [state EXCEPT !.pendingNonce = state.pendingNonce + 1]
            ELSE /\ calls'[i].nonce = InitialCount
                 /\ state' = WalletState(InitialCount + 1, InitialCount - 1,
                                         InitialCount - 1) ]_vars
\* the scenario has run to its end: 7 and 8 were accepted in the first invocation, the
\* ledger confirmed 7, and the next invocation had 9 accepted
C14_Witness ==
  /\ ReturnedNonces = InitialCount..(InitialCount + 2) /\ NoCallAborted
  /\ resubmitted = {} /\ chainCount = InitialCount + 1
  /\ pq.pc = "idle" /\ run = [kind |-> "tx", nonce |-> InitialCount + 2, reply |-> "ok"]
  /\ state = WalletState(InitialCount + 3, InitialCount + 2, InitialCount)
  /\ accepted = InitialCount..(InitialCount + 2)

\* C15: a submit whose request has no `to` is rejected and creates no record: no
\* stored record lacks its destination.
C15_MissingToRejected ==
  \A n \in Nonces : txs[n].present => txs[n].to # undefined

\* The identity fields of a record.
Identity(tx) == <<tx.nonce, tx.to, tx.value, tx.data, tx.gas, tx.createdAt>>

\* C16: once the record of a nonce exists, no step changes its identity fields
\* (nonce, to, value, data, gas, createdAt).
C16_IdentityImmutable ==
  [][ \A n \in Nonces : txs[n].present =>
         txs'[n].present /\ Identity(txs'[n]) = Identity(txs[n]) ]_vars

\* C17: once a record carries a hash, no step removes or replaces the hash, and none
\* adds, removes or replaces its error annotation.
C17_LifecycleForward ==
  [][ \A n \in Nonces : txs[n].hash # NoHash =>
         txs'[n].hash = txs[n].hash /\ txs'[n].error = txs[n].error ]_vars

Next ==
  \/ \E i \in Calls, body \in SubmitTxRequest : handleSubmitTransaction(i, body)
  \/ \E i \in Calls, c \in CountReports : SubmitBootstrapped(i, c)
  \/ \E i \in Calls : SubmitBootstrapFailed(i)
  \/ AlarmFires
  \/ \E c \in CountReports : CountArrives(c)
  \/ CountFails
  \/ SendAccepted
  \/ \E errMsg \in ErrMsgs : SendThrows(errMsg)
  \/ SkipAccepted
  \/ SkipThrows
  \/ Crash
  \/ LedgerConfirm

Spec == Init /\ [][Next]_vars

\* The same wallet when callers also send bodies with no `to`.
NextUnchecked ==
  \/ \E i \in Calls, body \in SubmitTxRequestUnchecked : handleSubmitTransaction(i, body)
  \/ \E i \in Calls, c \in CountReports : SubmitBootstrapped(i, c)
  \/ \E i \in Calls : SubmitBootstrapFailed(i)
  \/ AlarmFires
  \/ \E c \in CountReports : CountArrives(c)
  \/ CountFails
  \/ SendAccepted
  \/ \E errMsg \in ErrMsgs : SendThrows(errMsg)
  \/ SkipAccepted
  \/ SkipThrows
  \/ Crash
  \/ LedgerConfirm

SpecUnchecked == Init /\ [][NextUnchecked]_vars

\* The wallet under the assumptions of the liveness claim: a pending alarm fires, a call
\* awaiting its bootstrap query gets its answer, the Chain Client does not go on failing
\* (the count query gets the ledger's count, a submission is accepted or refused for
\* good, a self-transfer is accepted), the ledger confirms what it accepted, and the
\* object is not restarted for ever.
Fairness ==
  /\ WF_vars(AlarmFires)
  /\ WF_vars(\E i \in Calls : SubmitBootstrapped(i, chainCount) \/ SubmitBootstrapFailed(i))
  /\ SF_vars(CountArrives(chainCount))
  /\ SF_vars(SendAccepted \/ SendThrows("insufficient funds"))
  /\ SF_vars(SkipAccepted)
  /\ WF_vars(LedgerConfirm)
  /\ <>[][~Crash]_vars

LiveSpec == Init /\ [][Next]_vars /\ Fairness

\* Call i's transaction was handed to the Chain Client with its own parameters and the
\* ledger confirmed its nonce, or it was skipped with an error annotation.
Settled(i) ==
  /\ calls[i].nonce \in Nonces
  /\ LET tx == txs[calls[i].nonce] IN
     /\ tx.present /\ tx.createdAt = i /\ tx.hash # NoHash
     /\ \/ tx.hash.kind = "tx" /\ calls[i].nonce < chainCount
        \/ tx.hash.kind = "skip" /\ tx.error # NoError

\* C11: under Fairness every transaction a submit call returned a nonce for is
\* eventually settled: submitted with its own parameters and confirmed, or skipped
\* with an error annotation.
C11_EverySubmitSettles ==
  \A i \in Calls : (calls[i].pc = "returned") ~> Settled(i)
(* --------------------------- the wallet pool --------------------------- *)
Range(list) == { list[k] : k \in 1..Len(list) }
includes(list, a) == a \in Range(list)

\* Line 46.
PoolOf_unfiltered(disabled) == getAddresses
PoolOf(disabled) == SelectSeq(getAddresses, LAMBDA a : ~includes(disabled, a))

\* getDisabledWallets() if it returned the field without loading the stored list.
getDisabledWallets_noLoad == cachedDisabledWallets
\* Lines 64-72.
getDisabledWallets ==
  IF Len(cachedDisabledWallets) = 0 \/ cachedDisabledWallets[1] # "0x"
  THEN cachedDisabledWallets
  ELSE IF disabledWallets = NotStored THEN <<>> ELSE disabledWallets

\* Lines 115-120.
poolEnsureAlarmScheduled(currentAlarm) ==
  IF currentAlarm = NoAlarm THEN BALANCE_CHECK_INTERVAL_MS ELSE currentAlarm

\* Lines 43-62; random is the value of Math.floor(Math.random() * pool.length).
getNextWallet(random) ==
  /\ Len(picks) < MaxPicks
  /\ LET disabled == getDisabledWallets
         pool == PoolOf(disabled) IN
     /\ cachedDisabledWallets' = disabled
     /\ IF Len(pool) = 0
        THEN /\ picks' = Append(picks, NoWalletsAvailable)
             /\ UNCHANGED <<nextIndex, poolAlarm>>
        ELSE /\ random < Len(pool)
             /\ nextIndex # -1 => random = 0
             /\ LET index == IF nextIndex = -1 THEN random ELSE nextIndex IN
                /\ picks' = Append(picks, pool[(index % Len(pool)) + 1])
                /\ nextIndex' = (index + 1) % Len(pool)
             /\ poolAlarm' = poolEnsureAlarmScheduled(poolAlarm)
  /\ UNCHANGED <<disabledWallets, checks, walletVars>>

\* checkBalances up to its first getBalance call (lines 79-97).
StartCheck(c) ==
  checks' = [checks EXCEPT ![c] = [pc |-> "balance", i |-> 1, disabled |-> <<>>,
                                   seen |-> <<>>]]

\* refresh(), line 75.
refresh ==
  /\ checks["refresh"].pc # "balance"
  /\ StartCheck("refresh")
  /\ UNCHANGED <<nextIndex, cachedDisabledWallets, disabledWallets, poolAlarm, picks,
                 walletVars>>

\* GET /pool/disabled (index.ts lines 55-60): a getDisabledWallets() call of its own;
\* the only state it changes is the cached list, which it loads (lines 69-70).
getDisabledWallets_call ==
  /\ cachedDisabledWallets = NotLoaded
  /\ cachedDisabledWallets' = getDisabledWallets
  /\ UNCHANGED <<nextIndex, disabledWallets, poolAlarm, checks, picks, walletVars>>

\* alarm() if it armed the next wake-up itself.
PoolAlarmFires_rescheduling ==
  /\ poolAlarm # NoAlarm
  /\ checks["alarm"].pc = "idle"
  /\ poolAlarm' = BALANCE_CHECK_INTERVAL_MS
  /\ StartCheck("alarm")
  /\ UNCHANGED <<nextIndex, cachedDisabledWallets, disabledWallets, picks, walletVars>>

\* alarm(), lines 38-41.
PoolAlarmFires ==
  /\ poolAlarm # NoAlarm
  /\ checks["alarm"].pc = "idle"
  /\ poolAlarm' = NoAlarm
  /\ StartCheck("alarm")
  /\ UNCHANGED <<nextIndex, cachedDisabledWallets, disabledWallets, picks, walletVars>>

\* Line 98.
BelowMin_orEqual(balance) == balance <= MIN_BALANCE_WEI
BelowMin(balance) == balance < MIN_BALANCE_WEI

\* The stored list as getDisabledWallets loads it.
StoredDisabled == IF disabledWallets = NotStored THEN <<>> ELSE disabledWallets

\* A step of checkBalances if a failed balance query disabled the address.
BalanceArrives_failureDisables(c, balance) ==
  /\ checks[c].pc = "balance"
  /\ LET ck == checks[c]
         addr == getAddresses[ck.i]
         disabled == IF balance = GetBalanceThrows \/ BelowMin(balance)
                     THEN Append(ck.disabled, addr) ELSE ck.disabled
         seen == Append(ck.seen, balance) IN
     IF ck.i < Len(getAddresses)
     THEN /\ checks' = [checks EXCEPT ![c] = [ck EXCEPT !.i = ck.i + 1,
                                                       !.disabled = disabled,
                                                       !.seen = seen]]
          /\ UNCHANGED <<cachedDisabledWallets, disabledWallets, picks>>
     ELSE /\ disabledWallets' = disabled
          /\ cachedDisabledWallets' = disabled
          /\ checks' = [checks EXCEPT ![c] =
                          IF c = "refresh"
                          THEN [pc |-> "returned", i |-> 0,
                                disabled |-> cachedDisabledWallets', seen |-> seen]
                          ELSE IdleCheck]
          /\ picks' = IF Range(disabled) = Range(StoredDisabled) THEN picks ELSE <<>>
  /\ UNCHANGED <<nextIndex, poolAlarm, walletVars>>

\* Lines 97-107 (and 76 for refresh): the awaited getBalance returns balance or throws;
\* after the last address the list is stored and cached, and refresh() returns it.
BalanceArrives(c, balance) ==
  /\ checks[c].pc = "balance"
  /\ LET ck == checks[c]
         addr == getAddresses[ck.i]
         disabled == IF balance # GetBalanceThrows /\ BelowMin(balance)
                     THEN Append(ck.disabled, addr) ELSE ck.disabled
         seen == Append(ck.seen, balance) IN
     IF ck.i < Len(getAddresses)
     THEN /\ checks' = [checks EXCEPT ![c] = [ck EXCEPT !.i = ck.i + 1,
                                                       !.disabled = disabled,
                                                       !.seen = seen]]
          /\ UNCHANGED <<cachedDisabledWallets, disabledWallets, picks>>
     ELSE /\ disabledWallets' = disabled
          /\ cachedDisabledWallets' = disabled
          /\ checks' = [checks EXCEPT ![c] =
                          IF c = "refresh"
                          THEN [pc |-> "returned", i |-> 0,
                                disabled |-> cachedDisabledWallets', seen |-> seen]
                          ELSE IdleCheck]
          /\ picks' = IF Range(disabled) = Range(StoredDisabled) THEN picks ELSE <<>>
  /\ UNCHANGED <<nextIndex, poolAlarm, walletVars>>

\* The pool object is evicted or restarted: its fields are constructed again (lines
\* 24-26), storage and the alarm are kept, an interrupted alarm() runs again.
PoolRestart ==
  /\ \/ nextIndex # -1 \/ cachedDisabledWallets # NotLoaded
     \/ \E c \in Checkers : checks[c].pc = "balance"
  /\ nextIndex' = -1
  /\ cachedDisabledWallets' = NotLoaded
  /\ poolAlarm' = IF checks["alarm"].pc = "balance" THEN RearmAfterInterrupt(poolAlarm)
                  ELSE poolAlarm
  /\ checks' = [c \in Checkers |-> IF checks[c].pc = "balance" THEN IdleCheck
                                    ELSE checks[c]]
  /\ UNCHANGED <<disabledWallets, picks, walletVars>>

PoolNext ==
  \/ \E random \in 0..(Len(getAddresses) - 1) : getNextWallet(random)
  \/ refresh
  \/ PoolAlarmFires
  \/ \E c \in Checkers, balance \in Balances \cup {GetBalanceThrows} :
        BalanceArrives(c, balance)
  \/ PoolRestart
  \/ getDisabledWallets_call

PoolSpec == Init /\ [][PoolNext]_vars

\* The enabled addresses: all of them but the stored disabled ones.
EnabledSet == Range(getAddresses) \ Range(StoredDisabled)
Times(a) == Cardinality({ k \in 1..Len(picks) : picks[k] = a })
\* The step of a getNextWallet call.
NextWalletStep == Len(picks') = Len(picks) + 1

\* C18: k getNextWallet calls against an unchanged enabled set of size m return each
\* enabled address floor(k/m) or ceil(k/m) times, and any m calls in a row return m
\* different addresses.
C18_RoundRobin ==
  LET m == Cardinality(EnabledSet)
      k == Len(picks) IN
  m > 0 =>
    /\ \A a \in EnabledSet : Times(a) \in {k \div m, (k + m - 1) \div m}
    /\ \A j \in 1..(k - m + 1) : Cardinality({ picks[x] : x \in j..(j + m - 1) }) = m

RefreshReturns == checks["refresh"].pc = "balance" /\ checks'["refresh"].pc = "returned"
\* The addresses whose balance the run saw below the minimum.
SeenBelowMin(seen) ==
  { getAddresses[k] : k \in { x \in 1..Len(seen) :
                                seen[x] # GetBalanceThrows /\ seen[x] < MIN_BALANCE_WEI } }

\* C20: when refresh() returns, the stored list, the cached list and the returned list
\* are the addresses whose balance this run saw below the minimum and no other,
\* whatever the list was before.
C20_RefreshRebuilds ==
  [][ RefreshReturns =>
        /\ disabledWallets' # NotStored
        /\ Range(disabledWallets') = SeenBelowMin(checks'["refresh"].seen)
        /\ cachedDisabledWallets' = disabledWallets'
        /\ checks'["refresh"].disabled = disabledWallets' ]_vars
\* refresh() has returned a list with an address in it, and left out an address whose
\* balance it saw at the minimum
C20_Witness ==
  /\ checks["refresh"].pc = "returned"
  /\ disabledWallets = checks["refresh"].disabled /\ Len(disabledWallets) > 0
  /\ \E k \in 1..Len(getAddresses) :
        /\ checks["refresh"].seen[k] = MIN_BALANCE_WEI
        /\ ~includes(disabledWallets, getAddresses[k])

\* No recheck is pending and none is running.
NoRecheckAhead == poolAlarm = NoAlarm /\ checks["alarm"].pc = "idle"

\* C21: a getNextWallet call made when no recheck is pending or running arms one, so
\* that calls that keep coming lead to another check of the balances after every
\* wake-up, also when every address is disabled.
C21_CallsLeadToRecheck ==
  [][ (NextWalletStep /\ NoRecheckAhead) => poolAlarm' # NoAlarm ]_vars

\* C22: after every getNextWallet call a recheck wake-up is pending, and a wake-up
\* that was pending before the call keeps its time.
C22_CallArmsOnce ==
  [][ NextWalletStep =>
        /\ poolAlarm' # NoAlarm
        /\ poolAlarm # NoAlarm => poolAlarm' = poolAlarm ]_vars

\* The step in which the runtime delivers an interrupted wake-up again.
Redelivery == checks["alarm"].pc = "balance" /\ checks'["alarm"].pc = "idle"
              /\ cachedDisabledWallets' = NotLoaded
\* C23: the wake-up handler checks the balances and arms no wake-up: the step that
\* fires leaves none pending and starts the check, the steps of its check leave the
\* slot alone, and a wake-up becomes pending only in a getNextWallet step (or when the
\* runtime delivers an interrupted wake-up again).
C23_HandlerNeverArms ==
  [][ /\ (poolAlarm # NoAlarm /\ poolAlarm' = NoAlarm) =>
           (checks["alarm"].pc = "idle" /\ checks'["alarm"].pc = "balance")
      /\ (checks["alarm"].pc = "idle" /\ checks'["alarm"].pc = "balance") =>
           poolAlarm' = NoAlarm
      /\ (checks["alarm"].pc = "balance" /\ checks'["alarm"] # checks["alarm"]
          /\ ~Redelivery) => poolAlarm' = poolAlarm
      /\ (poolAlarm = NoAlarm /\ poolAlarm' # NoAlarm) =>
           (NextWalletStep \/ Redelivery) ]_vars
\* a call armed the wake-up, it fired, its check stored a list, no wake-up is pending
C23_Witness ==
  /\ NoRecheckAhead
  /\ disabledWallets # NotStored
  /\ checks["refresh"].pc = "idle"
  /\ \E k \in 1..Len(picks) : picks[k] # NoWalletsAvailable

\* The address after a in the rotation over the enabled addresses.
Successor(a) ==
  LET pool == PoolOf(StoredDisabled)
      k == CHOOSE x \in 1..Len(pool) : pool[x] = a IN
  pool[(k % Len(pool)) + 1]

\* C24: the rotation goes on from where it was, also across a restart of the pool:
\* against an unchanged enabled set every call returns the address after the one the
\* call before it returned.
C24_CursorSurvives ==
  \A k \in 1..(Len(picks) - 1) :
    (picks[k] \in EnabledSet /\ picks[k + 1] \in EnabledSet) =>
       picks[k + 1] = Successor(picks[k])

\* C25: what getDisabledWallets returns is the stored list, also when the fields were
\* constructed again; it is the empty list while nothing was stored, never the
\* placeholder; and the addresses getNextWallet chooses from are all but the stored ones.
C25_DisabledSurvives ==
  /\ getDisabledWallets = StoredDisabled
  /\ getDisabledWallets # NotLoaded
  /\ Range(PoolOf(getDisabledWallets)) = Range(getAddresses) \ Range(StoredDisabled)
\* the fields were constructed again while a list with an address in it is stored
C25_Witness ==
  /\ cachedDisabledWallets = NotLoaded /\ nextIndex = -1
  /\ disabledWallets # NotStored /\ Len(disabledWallets) > 0

(* ------------------------------ the router ------------------------------ *)
\* The wallet whose object the wallet variables of this module are.
ThisWallet == getAddresses[1]

\* env.WALLET.getByName(address) if every name gave the same object.
getByName_oneObject(name) == "default"
\* env.WALLET.getByName(address), index.ts lines 38 and 79: one object per name.
getByName(name) == name

\* POST /pool/send after its getNextWallet call returned (index.ts lines 37-42): the
\* i-th request forwards its body to the wallet object of the address the i-th call
\* returned. A request forwarded to another wallet's object runs on that object's state,
\* which is not among the variables of this module.
PoolSend(i, body) ==
  /\ i <= Len(picks) /\ picks[i] # NoWalletsAvailable
  /\ getByName(picks[i]) = getByName(ThisWallet)
  /\ handleSubmitTransaction(i, body)

\* The pool and one of its wallets behind the router, while every wallet is funded and
\* the pool object stays in memory.
RouterNext ==
  \/ \E random \in 0..(Len(getAddresses) - 1) : getNextWallet(random)
  \/ \E i \in Calls, body \in SubmitTxRequest : PoolSend(i, body)
  \/ refresh
  \/ PoolAlarmFires
  \/ \E c \in Checkers : BalanceArrives(c, MIN_BALANCE_WEI)
  \/ getDisabledWallets_call
  \/ \E i \in Calls, c \in CountReports : SubmitBootstrapped(i, c)
  \/ \E i \in Calls : SubmitBootstrapFailed(i)
  \/ AlarmFires
  \/ \E c \in CountReports : CountArrives(c)
  \/ CountFails
  \/ SendAccepted
  \/ \E errMsg \in ErrMsgs : SendThrows(errMsg)
  \/ SkipAccepted
  \/ SkipThrows
  \/ Crash
  \/ LedgerConfirm

RouterSpec == Init /\ [][RouterNext]_vars

ExpectedData(body) ==
  IF body.abi # undefined THEN encodeFunctionData(body.abi, body.args)
  ELSE IF body.data # undefined THEN <<body.data>> ELSE <<>>

\* C27: the calldata of a new record is the encoding of the signature and arguments
\* whenever the request has a signature, whether or not it has raw data too, and the
\* raw data when it has none: for every record some request has its destination and
\* the calldata expected of that request, and the record a bootstrapping submit stores
\* holds the calldata expected of its body.
C27_CalldataPrecedence ==
  /\ [](\A n \in Nonces : txs[n].present =>
          \E body \in SubmitTxRequestUnchecked :
             txs[n].to = body.to /\ txs[n].data = ExpectedData(body))
  /\ [][ \A i \in Calls :
           (calls[i].pc = "bootstrap" /\ calls'[i].pc = "returned") =>
              txs'[calls'[i].nonce].data = ExpectedData(calls[i].body) ]_vars
\* a request with signature and raw data left a record with the encoding, a request
\* with raw data only left a record with the raw data
C27_Witness ==
  \E n, k \in Nonces :
    /\ txs[n].present /\ txs[n].to = "0xdest"
    /\ txs[n].data = encodeFunctionData("mint(address,uint256)", <<"0xto", "1">>)
    /\ txs[k].present /\ txs[k].to = undefined /\ txs[k].data = <<"0xraw">>

(* ------------------------------ getStatus ------------------------------- *)
\* index.ts lines 99-102: the value of getStatus() that the router answers with 404
\* "Wallet not initialized".
UninitializedWallet == [error |-> "Wallet not initialized"]

\* getStatus(): its reply on the stored state st.
getStatus(st) ==
  IF ~st.present THEN UninitializedWallet
  ELSE [pendingNonce |-> st.pendingNonce, submittedNonce |-> st.submittedNonce,
        confirmedNonce |-> st.confirmedNonce,
        queueDepth |-> st.pendingNonce - 1 - st.confirmedNonce,
        inFlight |-> st.submittedNonce - st.confirmedNonce]

\* getStatus() if it built the state of a wallet that has none, as getOrInitState
\* (lines 393-411) does.
getStatus_call_initialising ==
  /\ IF state.present THEN UNCHANGED <<state, bootQueries>>
     ELSE /\ state' = WalletState(chainCount + 1, chainCount - 1, chainCount - 1)
          /\ bootQueries' = bootQueries + 1
  /\ UNCHANGED <<txs, address, alarm, alarmRetries, calls, pq, chainCount, accepted,
                 resubmitted, run, poolVars>>
\* A getStatus() call: it replies getStatus(state) and writes nothing.
getStatus_call == UNCHANGED vars

\* The wallet with status queries among its calls.
StatusNext == Next \/ getStatus_call
StatusSpec == Init /\ [][StatusNext]_vars

\* C28: getStatus replies UninitializedWallet while the wallet has no stored state and
\* otherwise the three nonces with queueDepth = pendingNonce - 1 - confirmedNonce and
\* inFlight = submittedNonce - confirmedNonce; the state is created and the Chain
\* Client is asked for the bootstrap count only by a submit, never by a status query,
\* which changes nothing.
C28_StatusReadOnly ==
  /\ [](IF ~state.present THEN getStatus(state) = UninitializedWallet
        ELSE /\ getStatus(state) # UninitializedWallet
             /\ getStatus(state).queueDepth =
                  state.pendingNonce - 1 - state.confirmedNonce
             /\ getStatus(state).inFlight =
                  state.submittedNonce - state.confirmedNonce)
  /\ [][ /\ (~state.present /\ state'.present) =>
              \E i \in Calls : calls[i].pc = "bootstrap" /\ calls'[i].pc # "bootstrap"
         /\ bootQueries' # bootQueries =>
              \E i \in Calls : calls[i].pc = "idle" /\ calls'[i].pc = "bootstrap" ]_vars
\* an initialized wallet with two transactions queued and one of them in flight
C28_Witness ==
  /\ state.present
  /\ getStatus(state).queueDepth = 2
  /\ getStatus(state).inFlight = 1

\* The step in which a processNextPendingTx run makes its first sendTransaction call.
FirstAttempt == pq.pc = "count" /\ pq'.pc = "send"

\* C29: the first nonce a run attempts is the stored submittedNonce + 1, and an
\* accepted submission for nonce n comes after an accepted submission for n - 1 unless
\* n is the nonce the wallet started with, also when a record in the window does not
\* load.
C29_GaplessInOrder ==
  /\ [][ FirstAttempt => pq'.nonce = state.submittedNonce + 1 ]_vars
  /\ [](\A n \in accepted : n = InitialCount \/ n - 1 \in accepted)

\* The step in which the self-transfer for pq.nonce fails, after the transaction of
\* that nonce failed for good.
SkipFails == pq.pc = "skip" /\ run.kind = "skip" /\ run'.reply = "0x"
\* The nonce the next run would attempt first on the stored state and records.
NextFirstAttempt(st, records) ==
  LET loadable == { m \in Nonces : st.submittedNonce < m /\ m <= lastNonceToSubmit(st)
                                   /\ records[m].present } IN
  IF loadable = {} THEN -1 ELSE Min(loadable)

\* C30: when the self-transfer for a nonce fails after that nonce's transaction was
\* refused for good, the run ends there: the stored submittedNonce stays below that
\* nonce and is what the run read or reached before it, the records are left as they
\* were, no further submission is made in this run, a wake-up is pending, and the
\* first nonce the next run would attempt is that nonce again, with its own record.
C30_SkipFailureStops ==
  [][ SkipFails =>
        /\ pq'.pc = "idle"
        /\ state'.submittedNonce = pq.st.submittedNonce
        /\ state'.submittedNonce < pq.nonce
        /\ txs' = txs
        /\ accepted' = accepted
        /\ alarm' # NoAlarm
        /\ NextFirstAttempt(state', txs') = pq.nonce ]_vars
\* the run ended on a failed self-transfer: nothing was accepted for that nonce, its
\* record has no hash and no error, and submittedNonce is below it
C30_Witness ==
  /\ pq.pc = "idle" /\ run.kind = "skip" /\ run.reply = "0x"
  /\ run.nonce \in Nonces
  /\ txs[run.nonce].present /\ txs[run.nonce].hash = NoHash
  /\ txs[run.nonce].error = NoError
  /\ state.submittedNonce < run.nonce
  /\ run.nonce \notin accepted

\* The step in which a run schedules the next wake-up at the polling interval.
Reschedules == alarm # ALARM_INTERVAL_MS /\ alarm' = ALARM_INTERVAL_MS
\* Every assigned nonce is confirmed and no further submit arrives.
AllConfirmedNoSubmit ==
  /\ state.present /\ state.confirmedNonce >= state.pendingNonce - 1
  /\ \A i \in Calls : calls[i].pc \notin {"idle", "bootstrap"}

\* C31: a run schedules the next wake-up at the polling interval only when it ends
\* with confirmedNonce < pendingNonce - 1, and once every assigned nonce is confirmed
\* and no further submit arrives, the time comes from which no wake-up is pending and
\* no run is in progress.
C31_PollingTerminates ==
  /\ [][ Reschedules =>
           (pq.pc # "idle" /\ pq'.pc = "idle"
            /\ state'.confirmedNonce < state'.pendingNonce - 1) ]_vars
  /\ (AllConfirmedNoSubmit ~> [](alarm = NoAlarm /\ pq.pc = "idle"))
\* everything assigned is confirmed after a submission was accepted, no call is left
\* to come, and the polling has stopped
C31_Witness ==
  /\ AllConfirmedNoSubmit
  /\ accepted # {} /\ state.confirmedNonce = state.submittedNonce
  /\ alarm = NoAlarm /\ pq.pc = "idle"

\* The step in which sendTransaction throws "already known" for pq.nonce.
AlreadyKnown == pq.pc = "send" /\ run.reply = "pending" /\ run'.reply = "already known"

\* C32: when sendTransaction is refused because the transaction is already known to
\* the mempool, the run takes the nonce as submitted: submittedNonce reaches it, in
\* the state the run goes on with or in the state it stores.
C32_AlreadyKnownAdvances ==
  [][ AlreadyKnown =>
        \/ pq'.pc # "idle" /\ pq'.st.submittedNonce >= pq.nonce
        \/ pq'.pc = "idle" /\ state'.submittedNonce >= pq.nonce ]_vars

\* The step in which a run calls the Chain Client's submit, for a record's transaction
\* or for a self-transfer.
SubmitAttempt == run'.reply = "pending" /\ run' # run

\* C33: a run never calls the Chain Client's submit with a nonce at or below the
\* confirmedNonce it computed from the ledger's count, also when that count has gone
\* past the stored submittedNonce.
C33_NoSettledNonceSent ==
  [][ SubmitAttempt => run'.nonce > pq'.st.confirmedNonce ]_vars

\* C34: while no run is in progress, a record carries a hash exactly when its nonce is
\* at or below the stored submittedNonce, and an error annotation only together with
\* a hash.
C34_HashIffSubmitted ==
  pq.pc = "idle" =>
    \A n \in Nonces : txs[n].present =>
       /\ (txs[n].hash # NoHash) <=> (n <= state.submittedNonce)
       /\ txs[n].error # NoError => txs[n].hash # NoHash

\* C35: a submit that returns a nonce raises the stored pendingNonce by one and leaves
\* submittedNonce and confirmedNonce as they were (when the wallet had a state), and
\* stores one new record, at the returned nonce, with no hash and no error, leaving
\* every record there was as it was.
C35_SubmitFrame ==
  [][ \A i \in Calls : SubmitReturns(i) =>
        LET n == calls'[i].nonce IN
        /\ state.present =>
             /\ state'.pendingNonce = state.pendingNonce + 1
             /\ state'.submittedNonce = state.submittedNonce
             /\ state'.confirmedNonce = state.confirmedNonce
        /\ state'.pendingNonce = n + 1
        /\ ~txs[n].present /\ txs'[n].present
        /\ txs'[n].hash = NoHash /\ txs'[n].error = NoError
        /\ \A m \in Nonces \ {n} : txs'[m] = txs[m] ]_vars

\* C36: when refresh() returns it has asked for every address's balance; an address
\* whose query failed is not in the list it stored, and every other address is in the
\* list exactly when its balance was below the minimum.
C36_FailedQueryEnables ==
  [][ RefreshReturns =>
        LET seen == checks'["refresh"].seen IN
        /\ Len(seen) = Len(getAddresses)
        /\ \A k \in 1..Len(getAddresses) :
             IF seen[k] = GetBalanceThrows
             THEN ~includes(disabledWallets', getAddresses[k])
             ELSE includes(disabledWallets', getAddresses[k]) <=> BelowMin(seen[k]) ]_vars
\* refresh() returned after a query failed: that address is enabled, and an address
\* asked after it was found below the minimum and is disabled
C36_Witness ==
  /\ checks["refresh"].pc = "returned"
  /\ disabledWallets = checks["refresh"].disabled
  /\ \E k, j \in 1..Len(getAddresses) :
        /\ k < j
        /\ checks["refresh"].seen[k] = GetBalanceThrows
        /\ ~includes(disabledWallets, getAddresses[k])
        /\ checks["refresh"].seen[j] # GetBalanceThrows
        /\ BelowMin(checks["refresh"].seen[j])
        /\ includes(disabledWallets, getAddresses[j])

=============================================================================
